---- MODULE Spec2Model ----
(***************************************************************************)
(* A model of src/main.js: the expression engine behind newExpression      *)
(* (tokenize, convertToPostfix, getInputs, getOutputs/evaluate,            *)
(* createCircuit, createKarnaughMap, createTruthTable).                    *)
(*                                                                         *)
(* Representation of JavaScript values.                                    *)
(*  - A character is a TLA+ string.  ASCII characters stand for            *)
(*    themselves ("A", "(", "+").  The non-ASCII characters of the source  *)
(*    are written with the names below (SymAnd is U+2227, and so on); a    *)
(*    name of several letters is still ONE character.                      *)
(*  - A JavaScript string is the sequence of its characters.               *)
(*  - The JavaScript values true, false, undefined and null are the        *)
(*    one-element sequences True, False, Undefined and Null, whose element *)
(*    is no character, so that they differ from every string.              *)
(*  - A JavaScript array is a sequence.                                    *)
(***************************************************************************)
EXTENDS Integers, Sequences, FiniteSets

VARIABLES raw, pc, tokens, normalized, variables, exp, inputs, outputs,
          inputIdx, replacedExp, gNodes, gEdges, karnaughMap, truthTable

vars == <<raw, pc, tokens, normalized, variables, exp, inputs, outputs,
          inputIdx, replacedExp, gNodes, gEdges, karnaughMap, truthTable>>

----------------------------------------------------------------------------
(* Characters of the source that are not ASCII. *)
SymAnd == "and"        \* U+2227 LOGICAL AND
SymOr == "or"          \* U+2228 LOGICAL OR
SymNot == "not"        \* U+00AC NOT SIGN
SymImply == "imply"    \* U+2192 RIGHTWARDS ARROW
SymXor == "xor"        \* U+2295 CIRCLED PLUS
SymXnor == "xnor"      \* U+2261 IDENTICAL TO
SymVeebar == "veebar"  \* U+22BB XOR (a synonym key)
SymOdot == "odot"      \* U+2299 CIRCLED DOT OPERATOR (a synonym key)

True == <<"true">>
False == <<"false">>
Undefined == <<"undefined">>
Null == <<"null">>

(* String(undefined), what String.prototype.replace inserts when its callback
   returns undefined. *)
UndefinedText == <<"u", "n", "d", "e", "f", "i", "n", "e", "d">>

UpperLetters ==
  {"A", "B", "C", "D", "E", "F", "G", "H", "I", "J", "K", "L", "M", "N", "O",
   "P", "Q", "R", "S", "T", "U", "V", "W", "X", "Y", "Z"}

LowerLetters ==
  {"a", "b", "c", "d", "e", "f", "g", "h", "i", "j", "k", "l", "m", "n", "o",
   "p", "q", "r", "s", "t", "u", "v", "w", "x", "y", "z"}

LowerSeq ==
  <<"a", "b", "c", "d", "e", "f", "g", "h", "i", "j", "k", "l", "m", "n", "o",
    "p", "q", "r", "s", "t", "u", "v", "w", "x", "y", "z">>

UpperSeq ==
  <<"A", "B", "C", "D", "E", "F", "G", "H", "I", "J", "K", "L", "M", "N", "O",
    "P", "Q", "R", "S", "T", "U", "V", "W", "X", "Y", "Z">>

(* The case folding of a regular expression with the i flag. *)
Canonicalize(c) ==
  IF c \in LowerLetters
    THEN UpperSeq[CHOOSE i \in 1..Len(LowerSeq) : LowerSeq[i] = c]
    ELSE c

Letters == UpperLetters \cup LowerLetters

Bits == {"0", "1"}

IsLetter(c) == c \in Letters

IsBit(c) == c \in Bits

(* \w: letters, digits and the underscore. *)
IsWordChar(c) ==
  IsLetter(c) \/ c \in {"0", "1", "2", "3", "4", "5", "6", "7", "8", "9", "_"}

(* \s *)
IsSpace(c) == c \in {" ", "\t", "\n"}

----------------------------------------------------------------------------
(* otherSymbols, in the order of its keys. *)
otherSymbols ==
  << [key |-> <<".">>, value |-> SymAnd],
     [key |-> <<"^">>, value |-> SymAnd],
     [key |-> <<"&">>, value |-> SymAnd],
     [key |-> <<"A", "N", "D">>, value |-> SymAnd],
     [key |-> <<"+">>, value |-> SymOr],
     [key |-> <<"|">>, value |-> SymOr],
     [key |-> <<"O", "R">>, value |-> SymOr],
     [key |-> <<"!">>, value |-> SymNot],
     [key |-> <<"N", "O", "T">>, value |-> SymOr],
     [key |-> <<SymVeebar>>, value |-> SymXor],
     [key |-> <<"X", "O", "R">>, value |-> SymOr],
     [key |-> <<">">>, value |-> SymImply],
     [key |-> <<"=">>, value |-> SymXnor],
     [key |-> <<SymOdot>>, value |-> SymXnor],
     [key |-> <<"X", "N", "O", "R">>, value |-> SymXnor] >>

(* exp.replace(squeezeRegex, '') *)
Squeeze(s) == SelectSeq(s, LAMBDA c : ~IsSpace(c))

(* Whether alternative `key` of replaceRegex matches s at position p
   (flag i: letters are compared without case). *)
KeyMatchesAt(s, p, key) ==
  /\ p + Len(key) - 1 <= Len(s)
  /\ \A i \in 1..Len(key) : Canonicalize(s[p + i - 1]) = Canonicalize(key[i])

(* The first alternative of replaceRegex that matches at p, 0 when none does. *)
FirstAlternative(s, p) ==
  LET ms == {m \in 1..Len(otherSymbols) : KeyMatchesAt(s, p, otherSymbols[m].key)}
  IN IF ms = {} THEN 0 ELSE CHOOSE m \in ms : \A o \in ms : m <= o

(* key => otherSymbols[key]: the table is indexed by the matched text as it
   stands; a text that is no key gives undefined, inserted as "undefined". *)
Replacement(text) ==
  LET ms == {m \in 1..Len(otherSymbols) : otherSymbols[m].key = text}
  IN IF ms = {} THEN UndefinedText ELSE <<otherSymbols[CHOOSE m \in ms : TRUE].value>>

RECURSIVE ReplaceFrom(_, _)
ReplaceFrom(s, p) ==
  IF p > Len(s) THEN <<>>
  ELSE LET m == FirstAlternative(s, p)
       IN IF m = 0
            THEN <<s[p]>> \o ReplaceFrom(s, p + 1)
            ELSE LET n == Len(otherSymbols[m].key)
                 IN Replacement(SubSeq(s, p, p + n - 1)) \o ReplaceFrom(s, p + n)

(* .replace(replaceRegex, key => otherSymbols[key]), flags gi. *)
ReplaceSymbols(s) == ReplaceFrom(s, 1)

(* The text tokenize hands to .match: whitespace removed, symbols replaced. *)
Normalize(s) == ReplaceSymbols(Squeeze(s))

(* The last position of the run of characters of class cls that starts at p. *)
RECURSIVE RunEnd(_, _, _)
RunEnd(s, p, cls) ==
  IF p < Len(s) /\ s[p + 1] \in cls THEN RunEnd(s, p + 1, cls) ELSE p

RECURSIVE MatchFrom(_, _)
MatchFrom(s, p) ==
  IF p > Len(s) THEN <<>>
  ELSE IF IsLetter(s[p])
    THEN LET e == RunEnd(s, p, Letters)
         IN <<SubSeq(s, p, e)>> \o MatchFrom(s, e + 1)
  ELSE IF IsBit(s[p])
    THEN LET e == RunEnd(s, p, Bits)
         IN <<SubSeq(s, p, e)>> \o MatchFrom(s, e + 1)
  ELSE IF ~IsWordChar(s[p])
    THEN << <<s[p]>> >> \o MatchFrom(s, p + 1)
  ELSE MatchFrom(s, p + 1)

(* .match(tokenRegex): the matches, or null when there is none. *)
MatchTokens(s) ==
  LET ms == MatchFrom(s, 1) IN IF ms = <<>> THEN <<Null>> ELSE ms

tokenize(e) == MatchTokens(Normalize(e))

(* strRegex.test(token) and alphaNum.test(token): unanchored. *)
strRegexTest(token) == \E i \in 1..Len(token) : IsLetter(token[i])

alphaNumTest(token) == \E i \in 1..Len(token) : IsLetter(token[i]) \/ IsBit(token[i])

(* [...new Set(ts)]: the distinct elements in first-occurrence order. *)
RECURSIVE Distinct(_)
Distinct(ts) ==
  IF ts = <<>> THEN <<>>
  ELSE LET init == SubSeq(ts, 1, Len(ts) - 1)
           last == ts[Len(ts)]
       IN IF \E i \in 1..Len(init) : init[i] = last
            THEN Distinct(init)
            ELSE Append(Distinct(init), last)

----------------------------------------------------------------------------
(* The key under which a value is looked up in an object (`v in o`, o[v]). *)
PropertyKey(v) ==
  IF v = Undefined THEN UndefinedText
  ELSE IF v = True THEN <<"t", "r", "u", "e">>
  ELSE IF v = False THEN <<"f", "a", "l", "s", "e">>
  ELSE v

(* Number.prototype key of NaN: what precedence is indexed with at line 116. *)
NaNKey == <<"N", "a", "N">>

(* precedence, the order of operations. *)
precedence ==
  << [key |-> UndefinedText, rank |-> 7],
     [key |-> <<SymNot>>, rank |-> 6],
     [key |-> <<"(">>, rank |-> 5],
     [key |-> <<SymImply>>, rank |-> 4],
     [key |-> <<SymXor>>, rank |-> 3],
     [key |-> <<SymXnor>>, rank |-> 2],
     [key |-> <<SymAnd>>, rank |-> 1],
     [key |-> <<SymOr>>, rank |-> 0] >>

HasRank(key) == \E i \in 1..Len(precedence) : precedence[i].key = key

Rank(key) == precedence[CHOOSE i \in 1..Len(precedence) : precedence[i].key = key].rank

(* precedence[top] <= precedence[token]: a missing entry is undefined, and a
   comparison with undefined is false. *)
PrecedenceLessEq(top, token) ==
  /\ HasRank(top)
  /\ HasRank(token)
  /\ Rank(top) <= Rank(token)

(* let top = stack.length.length - 1: stack.length is a number, its .length is
   undefined, and undefined - 1 is NaN, whatever the stack holds. *)
TopOf(stack) == NaNKey

Reverse(s) == [i \in 1..Len(s) |-> s[Len(s) + 1 - i]]

(* The highest position of '(' in the stack, 0 when it holds none. *)
LastParen(stack) ==
  LET ps == {j \in 1..Len(stack) : stack[j] = <<"(">>}
  IN IF ps = {} THEN 0 ELSE CHOOSE j \in ps : \A o \in ps : o <= j

(* One iteration of infix.forEach in convertToPostfix.  threw: the loop body
   at line 117 calls pop, which is not defined (a ReferenceError). *)
ConvertToken(st, token) ==
  IF st.threw THEN st
  ELSE IF alphaNumTest(token)
    THEN [st EXCEPT !.postfix = Append(@, token)]
  ELSE IF token = <<"(">>
    THEN [st EXCEPT !.stack = Append(@, token)]
  ELSE IF token = <<")">>
    THEN LET j == LastParen(st.stack)
         IN [st EXCEPT
               !.postfix = @ \o Reverse(SubSeq(st.stack, j + 1, Len(st.stack))),
               !.stack = SubSeq(st.stack, 1, j - 1)]
  ELSE IF Len(st.stack) = 0
    THEN [st EXCEPT !.stack = Append(@, token)]
  ELSE IF PrecedenceLessEq(TopOf(st.stack), token)
    THEN [st EXCEPT !.threw = TRUE]
  ELSE [st EXCEPT !.stack = Append(@, token)]

RECURSIVE ConvertFrom(_, _, _)
ConvertFrom(infix, i, st) ==
  IF i > Len(infix) THEN st
  ELSE ConvertFrom(infix, i + 1, ConvertToken(st, infix[i]))

(* convertToPostfix(infix): [threw, postfix], postfix the returned array. *)
convertToPostfix(infix) ==
  LET st == ConvertFrom(infix, 1, [postfix |-> <<>>, stack |-> <<>>, threw |-> FALSE])
  IN [threw |-> st.threw, postfix |-> st.postfix \o Reverse(st.stack)]

----------------------------------------------------------------------------
(* JavaScript truthiness of the values that occur. *)
Truthy(v) == v \notin {False, Undefined, <<>>}

(* operations1 *)
operations1Keys == {<<SymNot>>}

Not(a) == IF Truthy(a) THEN False ELSE True

(* operations2 *)
operations2Keys == {<<SymAnd>>, <<SymOr>>, <<SymImply>>, <<SymXor>>, <<SymXnor>>}

operations2(op, a, b) ==
  CASE op = <<SymAnd>> -> IF Truthy(a) THEN b ELSE a
    [] op = <<SymOr>> -> IF Truthy(a) THEN a ELSE b
    [] op = <<SymImply>> -> IF Truthy(Not(a)) THEN True ELSE b
    [] op = <<SymXor>> -> IF Truthy(a) THEN Not(b) ELSE b
    [] op = <<SymXnor>> -> IF a = b THEN True ELSE False

(* conversion: ones and zeroes to true and false and back. *)
conversion ==
  << [key |-> <<"0">>, value |-> False],
     [key |-> <<"1">>, value |-> True],
     [key |-> <<"f", "a", "l", "s", "e">>, value |-> <<"0">>],
     [key |-> <<"t", "r", "u", "e">>, value |-> <<"1">>] >>

InConversion(v) == \E i \in 1..Len(conversion) : conversion[i].key = PropertyKey(v)

(* conversion[v], undefined when v is no key. *)
Convert(v) ==
  IF InConversion(v)
    THEN conversion[CHOOSE i \in 1..Len(conversion) : conversion[i].key = PropertyKey(v)].value
    ELSE Undefined

(* names *)
names(op) ==
  CASE op = <<SymNot>> -> <<"N", "O", "T">>
    [] op = <<SymAnd>> -> <<"A", "N", "D">>
    [] op = <<SymOr>> -> <<"O", "R">>
    [] op = <<SymImply>> -> <<"I", "M", "P", "L", "Y">>
    [] op = <<SymXor>> -> <<"X", "O", "R">>
    [] op = <<SymXnor>> -> <<"X", "N", "O", "R">>

(* exp.pop(): the last element (undefined when the array is empty) and the
   array that is left. *)
Pop(e) ==
  IF e = <<>> THEN [last |-> Undefined, rest |-> <<>>]
  ELSE [last |-> e[Len(e)], rest |-> SubSeq(e, 1, Len(e) - 1)]

(* evaluate(exp): [value, rest], rest what the call leaves of the array.  The
   arguments of operations2[last] are evaluated left to right: a is read
   first, from nearer the end of the array.  (`last in o` is membership among
   o's own keys: no token drawn here names a member of Object.prototype.) *)
RECURSIVE evaluate(_)
evaluate(e) ==
  LET p == Pop(e)
  IN IF PropertyKey(p.last) \in operations1Keys
       THEN LET a == evaluate(p.rest)
            IN [value |-> Not(a.value), rest |-> a.rest]
     ELSE IF PropertyKey(p.last) \in operations2Keys
       THEN LET a == evaluate(p.rest)
                b == evaluate(a.rest)
            IN [value |-> operations2(p.last, a.value, b.value), rest |-> b.rest]
     ELSE IF InConversion(p.last)
       THEN [value |-> Convert(p.last), rest |-> p.rest]
     ELSE [value |-> p.last, rest |-> p.rest]

----------------------------------------------------------------------------
Pow2(n) == 2 ^ n

(* Number(i).toString(2) *)
RECURSIVE ToString2(_)
ToString2(i) ==
  IF i < 2 THEN <<IF i = 0 THEN "0" ELSE "1">>
  ELSE Append(ToString2(i \div 2), IF (i % 2) = 0 THEN "0" ELSE "1")

(* s.padStart(length, '0'): s itself when it is already that long. *)
PadStart(s, length) ==
  IF Len(s) >= length THEN s
  ELSE [i \in 1..(length - Len(s)) |-> "0"] \o s

(* s.split('') *)
Split(s) == [i \in 1..Len(s) |-> <<s[i]>>]

(* getInputs(length) *)
getInputs(length) ==
  [i \in 1..Pow2(length) |-> Split(PadStart(ToString2(i - 1), length))]

(* arr[n], n counted from 0: undefined past the end. *)
At(arr, n) == IF n >= 0 /\ n < Len(arr) THEN arr[n + 1] ELSE Undefined

(* The number of tokens among the first p of e that strRegex matches. *)
LettersUpTo(e, p) == Cardinality({q \in 1..p : strRegexTest(e[q])})

(* exp.map(...) in getOutputs: n counts the tokens strRegex has matched so
   far, and the token is replaced by input[n]. *)
ReplaceVariables(e, input) ==
  [p \in 1..Len(e) |->
     IF strRegexTest(e[p]) THEN At(input, LettersUpTo(e, p) - 1) ELSE e[p]]

----------------------------------------------------------------------------
(* The graph g: nodes carry their id and attributes, edges are
   <<parent, child>> pairs.  A property a node does not have is Undefined. *)
EmptyGraph == [nodes |-> {}, edges |-> {}]

(* g.setNode(id, attrs): a node set again replaces the one of that id. *)
SetNode(g, attrs) ==
  [g EXCEPT !.nodes = {n \in @ : n.id # attrs.id} \cup {attrs}]

(* if (parentNode !== null) g.setEdge(parentNode, node, ...) *)
SetEdge(g, parentNode, node) ==
  IF parentNode = Null THEN g
  ELSE [g EXCEPT !.edges = @ \cup {<<parentNode, node>>}]

(* A variant of createCircuit in which the second operand does not go on from
   where the first stopped: each call reads from its own position. *)
RECURSIVE createCircuitOwnCursor(_, _, _, _, _)
createCircuitOwnCursor(g, e, direction, parentNode, node) ==
  LET p == Pop(e)
  IN IF PropertyKey(p.last) \in operations1Keys \cup operations2Keys
       THEN LET g1 == SetNode(g, [id |-> node, shape |-> <<"g", "a", "t", "e">>,
                                  label |-> <<>>, width |-> 180, height |-> 90,
                                  direction |-> direction, gate |-> names(p.last)])
                r == IF PropertyKey(p.last) \in operations1Keys
                       THEN createCircuitOwnCursor(g1, p.rest, 0, node, Append(node, "0"))
                       ELSE LET r0 == createCircuitOwnCursor(g1, p.rest, -1, node,
                                                             Append(node, "0"))
                            IN createCircuitOwnCursor(r0.g, p.rest, 1, node,
                                                      Append(node, "1"))
            IN [g |-> SetEdge(r.g, parentNode, node), exp |-> r.exp]
     ELSE [g |-> SetEdge(SetNode(g, [id |-> node, shape |-> Undefined,
                                     label |-> p.last, width |-> 0, height |-> 0,
                                     direction |-> direction, gate |-> Undefined]),
                         parentNode, node),
           exp |-> p.rest]

(* createCircuit(g, exp, direction, parentNode, node): [g, exp], the graph
   and what the call leaves of the array, which every recursive call pops. *)
RECURSIVE createCircuit(_, _, _, _, _)
createCircuit(g, e, direction, parentNode, node) ==
  LET p == Pop(e)
  IN IF PropertyKey(p.last) \in operations1Keys \cup operations2Keys
       THEN LET g1 == SetNode(g, [id |-> node, shape |-> <<"g", "a", "t", "e">>,
                                  label |-> <<>>, width |-> 180, height |-> 90,
                                  direction |-> direction, gate |-> names(p.last)])
                r == IF PropertyKey(p.last) \in operations1Keys
                       THEN createCircuit(g1, p.rest, 0, node, Append(node, "0"))
                       ELSE LET r0 == createCircuit(g1, p.rest, -1, node, Append(node, "0"))
                            IN createCircuit(r0.g, r0.exp, 1, node, Append(node, "1"))
            IN [g |-> SetEdge(r.g, parentNode, node), exp |-> r.exp]
     ELSE [g |-> SetEdge(SetNode(g, [id |-> node, shape |-> Undefined,
                                     label |-> p.last, width |-> 0, height |-> 0,
                                     direction |-> direction, gate |-> Undefined]),
                         parentNode, node),
           exp |-> p.rest]

----------------------------------------------------------------------------
(* a ^ b on non-negative integers (the operands never reach 2^31). *)
RECURSIVE BitXor(_, _)
BitXor(a, b) ==
  IF a = 0 /\ b = 0 THEN 0
  ELSE ((a + b) % 2) + (2 * BitXor(a \div 2, b \div 2))

(* A variant of gray: plain binary counting. *)
grayBinary(i) == i

(* gray(i) = i ^ (i >> 1) *)
gray(i) == BitXor(i, i \div 2)

(* parseInt(s, 2) of a string of binary digits. *)
RECURSIVE ParseInt2(_)
ParseInt2(s) ==
  IF s = <<>> THEN 0
  ELSE (2 * ParseInt2(SubSeq(s, 1, Len(s) - 1))) + (IF s[Len(s)] = "1" THEN 1 ELSE 0)

(* strs.join('') *)
RECURSIVE Join(_)
Join(strs) == IF strs = <<>> THEN <<>> ELSE strs[1] \o Join(Tail(strs))

(* document.createTextNode(v): the text of v. *)
TextOf(v) == PropertyKey(v)

(* const vertical = Math.floor(variables.length / 2) *)
vertical(vs) == Len(vs) \div 2

(* const horizontal = variables.length - vertical *)
horizontal(vs) == Len(vs) - vertical(vs)

(* gray(i).toString(2).padStart(width, '0'): a heading of the map. *)
GrayLabel(i, width) == PadStart(ToString2(gray(i)), width)

(* const index = <row heading> + <column heading> *)
KarnaughIndex(i, j, vs) == GrayLabel(i, vertical(vs)) \o GrayLabel(j, horizontal(vs))

(* One cell of the map: index is the local of that name, text the digit the
   cell shows, highlighted whether the cell carries the class. *)
KarnaughCell(outs, i, j, vs) ==
  LET index == KarnaughIndex(i, j, vs)
      digit == At(outs, ParseInt2(index))
  IN [index |-> index, text |-> TextOf(digit), highlighted |-> digit = <<"1">>]

(* createKarnaughMap(outputs, variables): the table it builds. *)
createKarnaughMap(outs, vs) ==
  [key |-> Join(SubSeq(vs, 1, vertical(vs))) \o <<"\\">>
             \o Join(SubSeq(vs, vertical(vs) + 1, Len(vs))),
   header |-> [c \in 1..Pow2(horizontal(vs)) |-> GrayLabel(c - 1, horizontal(vs))],
   rows |-> [r \in 1..Pow2(vertical(vs)) |->
               [label |-> GrayLabel(r - 1, vertical(vs)),
                cells |-> [c \in 1..Pow2(horizontal(vs)) |->
                             KarnaughCell(outs, r - 1, c - 1, vs)]]]]

(* createTruthTable(inputs, outputs, variables): the table it builds; header
   is variables after variables.push('Q'). *)
createTruthTable(ins, outs, vs) ==
  [header |-> Append(vs, <<"Q">>),
   rows |-> [r \in 1..Len(ins) |->
               [cells |-> Append(ins[r], TextOf(At(outs, r - 1))),
                highlighted |-> At(outs, r - 1) = <<"1">>]]]

NoTable == [header |-> <<>>, rows |-> <<>>]

NoMap == [key |-> <<>>, header |-> <<>>, rows |-> <<>>]

----------------------------------------------------------------------------
(* Bounds of the model. *)
MaxLen == 5
MaxPieces == 2
MaxVars == 5
MaxFullTableVars == 2

(* The characters expression.value is drawn from.  A run of letters is one
   variable, so that A, AA and AAA are three variables. *)
CoreAlphabet == {"A", "1", SymNot, SymAnd, SymImply, "(", ")"}

CoreTexts == UNION {[1..n -> CoreAlphabet] : n \in 0..MaxLen}

BinarySymbols == {SymAnd, SymOr, SymImply, SymXor, SymXnor}

(* x op y for every binary operator. *)
OperatorTexts == {<<x, op, y>> : x \in {"A", "B"}, y \in {"A", "B"}, op \in BinarySymbols}

(* The expressions quoted in the documentation of the engine. *)
ScenarioTexts ==
  { <<"A", " ", "A", "N", "D", " ", "B">>,
    <<"A", ".", "B", "+", "!", "C">>,
    <<"A", " ", "X", "O", "R", " ", "A">>,
    <<"A", SymAnd, "(", "B", SymOr, "C", ")">>,
    <<"A", SymAnd, "B", SymOr, "C">>,
    <<"A", SymXor, "0", SymXnor, "B">>,
    <<SymNot, "A", SymAnd, "B">> }

(* The pieces texts with synonyms are made of. *)
Pieces ==
  { <<".">>, <<"^">>, <<"&">>, <<"A", "N", "D">>, <<"a", "n", "d">>,
    <<"+">>, <<"|">>, <<"O", "R">>, <<"O", "r">>,
    <<"!">>, <<"N", "O", "T">>, <<"n", "o", "t">>,
    <<SymVeebar>>, <<"X", "O", "R">>, <<"x", "o", "r">>,
    <<">">>, <<"=">>, <<SymOdot>>, <<"X", "N", "O", "R">>, <<"x", "n", "o", "r">>,
    <<"A">>, <<"B">>, <<"(">>, <<")">>, <<" ">>, <<"1">> }

RECURSIVE PieceTexts(_)
PieceTexts(n) ==
  IF n = 0 THEN {<<>>}
  ELSE LET shorter == PieceTexts(n - 1)
       IN shorter \cup {t \o q : t \in shorter, q \in Pieces}

SynonymTexts == PieceTexts(MaxPieces)

(* The names of n variables. *)
VarNames == <<"A", "B", "C", "D", "E", "F", "G", "H">>

(* The output columns createKarnaughMap is applied to: every column of
   digits for few variables, and for more the columns with at most one 1. *)
OutputColumns(n) ==
  IF n <= MaxFullTableVars
    THEN [1..Pow2(n) -> {<<"0">>, <<"1">>}]
    ELSE {[r \in 1..Pow2(n) |-> IF r = one THEN <<"1">> ELSE <<"0">>] : one \in 0..Pow2(n)}

----------------------------------------------------------------------------
(* window.onload: newExpression starts on the text of the input element. *)
Start(texts) ==
  /\ raw \in texts
  /\ pc = "tokenize"
  /\ tokens = <<>>
  /\ normalized = <<>>
  /\ variables = <<>>
  /\ exp = <<>>
  /\ inputs = <<>>
  /\ outputs = <<>>
  /\ inputIdx = 0
  /\ replacedExp = <<>>
  /\ gNodes = {}
  /\ gEdges = {}
  /\ karnaughMap = NoMap
  /\ truthTable = NoTable

Init == Start(CoreTexts \cup OperatorTexts \cup ScenarioTexts)

InitSynonyms == Start(SynonymTexts)

(* newExpression at line 325, for n variables and a column of outputs (what
   createKarnaughMap and createTruthTable do not read is left empty). *)
InitKarnaugh ==
  \E n \in 0..MaxVars :
    /\ raw = <<>>
    /\ pc = "karnaugh"
    /\ tokens = <<>>
    /\ normalized = <<>>
    /\ variables = [i \in 1..n |-> <<VarNames[i]>>]
    /\ exp = <<>>
    /\ inputs = getInputs(n)
    /\ outputs \in OutputColumns(n)
    /\ inputIdx = 0
    /\ replacedExp = <<>>
    /\ gNodes = {}
    /\ gEdges = {}
    /\ karnaughMap = NoMap
    /\ truthTable = NoTable

(* line 313: const tokens = tokenize(expression.value) *)
Tokenize ==
  /\ pc = "tokenize"
  /\ tokens' = tokenize(raw)
  /\ normalized' = Normalize(raw)
  /\ pc' = "variables"
  /\ UNCHANGED <<raw, variables, exp, inputs, outputs, inputIdx, replacedExp,
                 gNodes, gEdges, karnaughMap, truthTable>>

(* line 314: tokens.filter(...) throws a TypeError when tokens is null. *)
CollectVariables ==
  /\ pc = "variables"
  /\ IF tokens = <<Null>>
       THEN pc' = "threw" /\ UNCHANGED variables
       ELSE /\ variables' = Distinct(SelectSeq(tokens, strRegexTest))
            /\ pc' = "convert"
  /\ UNCHANGED <<raw, tokens, normalized, exp, inputs, outputs, inputIdx,
                 replacedExp, gNodes, gEdges, karnaughMap, truthTable>>

(* line 315: const exp = convertToPostfix(tokens) *)
ConvertToPostfix ==
  /\ pc = "convert"
  /\ LET r == convertToPostfix(tokens)
     IN IF r.threw
          THEN pc' = "threw" /\ UNCHANGED exp
          ELSE exp' = r.postfix /\ pc' = "inputs"
  /\ UNCHANGED <<raw, tokens, normalized, variables, inputs, outputs, inputIdx,
                 replacedExp, gNodes, gEdges, karnaughMap, truthTable>>

(* line 316: const inputs = getInputs(variables.length) *)
GetInputs ==
  /\ pc = "inputs"
  /\ inputs' = getInputs(Len(variables))
  /\ inputIdx' = 1
  /\ pc' = "outputs"
  /\ UNCHANGED <<raw, tokens, normalized, variables, exp, outputs, replacedExp,
                 gNodes, gEdges, karnaughMap, truthTable>>

(* getOutputs, lines 296-304, for the input at inputIdx: replacedExp is the
   array exp.map returns. *)
MapInput ==
  /\ pc = "outputs"
  /\ replacedExp' = ReplaceVariables(exp, inputs[inputIdx])
  /\ pc' = "evaluate"
  /\ UNCHANGED <<raw, tokens, normalized, variables, exp, inputs, outputs,
                 inputIdx, gNodes, gEdges, karnaughMap, truthTable>>

(* A variant of EvaluateInput that evaluates the template itself:
   outputs.push(conversion[evaluate(exp)]). *)
EvaluateInputOnTemplate ==
  /\ pc = "evaluate"
  /\ LET r == evaluate(exp)
     IN /\ outputs' = Append(outputs, Convert(r.value))
        /\ exp' = r.rest
  /\ inputIdx' = inputIdx + 1
  /\ pc' = IF inputIdx = Len(inputs) THEN "circuit" ELSE "outputs"
  /\ UNCHANGED <<raw, tokens, normalized, variables, replacedExp, inputs, gNodes,
                 gEdges, karnaughMap, truthTable>>

(* getOutputs, line 305: outputs.push(conversion[evaluate(replacedExp)]);
   evaluate pops from replacedExp. *)
EvaluateInput ==
  /\ pc = "evaluate"
  /\ LET r == evaluate(replacedExp)
     IN /\ outputs' = Append(outputs, Convert(r.value))
        /\ replacedExp' = r.rest
  /\ inputIdx' = inputIdx + 1
  /\ pc' = IF inputIdx = Len(inputs) THEN "circuit" ELSE "outputs"
  /\ UNCHANGED <<raw, tokens, normalized, variables, exp, inputs, gNodes,
                 gEdges, karnaughMap, truthTable>>

(* line 324: createCircuit(g, exp) on a new graph; it pops from exp. *)
CreateCircuit ==
  /\ pc = "circuit"
  /\ LET r == createCircuit(EmptyGraph, exp, 0, Null, <<"0">>)
     IN /\ gNodes' = r.g.nodes
        /\ gEdges' = r.g.edges
        /\ exp' = r.exp
  /\ pc' = "karnaugh"
  /\ UNCHANGED <<raw, tokens, normalized, variables, inputs, outputs, inputIdx,
                 replacedExp, karnaughMap, truthTable>>

(* A variant of CreateKarnaughMap that runs after 'Q' was pushed onto
   variables. *)
CreateKarnaughMapAfterQ ==
  /\ pc = "karnaugh"
  /\ karnaughMap' = createKarnaughMap(outputs, Append(variables, <<"Q">>))
  /\ pc' = "table"
  /\ UNCHANGED <<raw, tokens, normalized, variables, exp, inputs, outputs,
                 inputIdx, replacedExp, gNodes, gEdges, truthTable>>

(* line 325: createKarnaughMap(outputs, variables) *)
CreateKarnaughMap ==
  /\ pc = "karnaugh"
  /\ karnaughMap' = createKarnaughMap(outputs, variables)
  /\ pc' = "table"
  /\ UNCHANGED <<raw, tokens, normalized, variables, exp, inputs, outputs,
                 inputIdx, replacedExp, gNodes, gEdges, truthTable>>

(* line 326: createTruthTable(inputs, outputs, variables); it pushes 'Q' onto
   variables. *)
CreateTruthTable ==
  /\ pc = "table"
  /\ truthTable' = createTruthTable(inputs, outputs, variables)
  /\ variables' = Append(variables, <<"Q">>)
  /\ pc' = "done"
  /\ UNCHANGED <<raw, tokens, normalized, exp, inputs, outputs, inputIdx,
                 replacedExp, gNodes, gEdges, karnaughMap>>

Next ==
  \/ Tokenize
  \/ CollectVariables
  \/ ConvertToPostfix
  \/ GetInputs
  \/ MapInput
  \/ EvaluateInput
  \/ CreateCircuit
  \/ CreateKarnaughMap
  \/ CreateTruthTable

NextKarnaugh ==
  \/ CreateKarnaughMap
  \/ CreateTruthTable

(* newExpression on the expressions over the operator symbols. *)
Spec == Init /\ [][Next]_vars

(* newExpression on texts written with the synonyms of otherSymbols. *)
SpecSynonyms == InitSynonyms /\ [][Next]_vars

(* createKarnaughMap and createTruthTable on n variables. *)
SpecKarnaugh == InitKarnaugh /\ [][NextKarnaugh]_vars

----------------------------------------------------------------------------
(* Vocabulary of the properties. *)

IsOperand(t) == alphaNumTest(t)

IsBinary(t) == t \in operations2Keys

(* Positions of the handler after the given line has run. *)
AfterCircuit == {"karnaugh", "table", "done"}

(* A well-formed infix expression: operands, each possibly behind some NOT
   signs, joined by binary operators, with balanced parentheses around
   well-formed expressions. *)
RECURSIVE WellFormedFrom(_, _, _, _)
WellFormedFrom(ts, i, wantOperand, depth) ==
  IF i > Len(ts) THEN ~wantOperand /\ depth = 0
  ELSE IF wantOperand
    THEN IF IsOperand(ts[i]) THEN WellFormedFrom(ts, i + 1, FALSE, depth)
         ELSE IF ts[i] = <<SymNot>> THEN WellFormedFrom(ts, i + 1, TRUE, depth)
         ELSE IF ts[i] = <<"(">> THEN WellFormedFrom(ts, i + 1, TRUE, depth + 1)
         ELSE FALSE
  ELSE IF IsBinary(ts[i]) THEN WellFormedFrom(ts, i + 1, TRUE, depth)
  ELSE IF ts[i] = <<")">> /\ depth > 0 THEN WellFormedFrom(ts, i + 1, FALSE, depth - 1)
  ELSE FALSE

WellFormedInfix(ts) == ts # <<Null>> /\ WellFormedFrom(ts, 1, TRUE, 0)

(* A ')' met while no '(' is open, or a '(' still open at the end. *)
RECURSIVE UnbalancedFrom(_, _, _)
UnbalancedFrom(ts, i, depth) ==
  IF i > Len(ts) THEN depth > 0
  ELSE IF ts[i] = <<"(">> THEN UnbalancedFrom(ts, i + 1, depth + 1)
  ELSE IF ts[i] = <<")">> THEN depth = 0 \/ UnbalancedFrom(ts, i + 1, depth - 1)
  ELSE UnbalancedFrom(ts, i + 1, depth)

Unbalanced(ts) == ts # <<Null>> /\ UnbalancedFrom(ts, 1, 0)

(* The shunting-yard algorithm: an incoming operator pops the operators on
   top of the stack, down to a '(', that rank higher, or equal when the
   incoming operator is binary (left-associative). *)
RECURSIVE StandardPop(_, _)
StandardPop(st, op) ==
  IF st.stack = <<>> THEN st
  ELSE LET top == st.stack[Len(st.stack)]
       IN IF top # <<"(">> /\ (Rank(top) > Rank(op) \/ (Rank(top) = Rank(op) /\ IsBinary(op)))
            THEN StandardPop([postfix |-> Append(st.postfix, top),
                              stack |-> SubSeq(st.stack, 1, Len(st.stack) - 1)], op)
            ELSE st

StandardToken(st, t) ==
  IF IsOperand(t) THEN [st EXCEPT !.postfix = Append(@, t)]
  ELSE IF t = <<"(">> THEN [st EXCEPT !.stack = Append(@, t)]
  ELSE IF t = <<")">>
    THEN LET j == LastParen(st.stack)
         IN [postfix |-> st.postfix \o Reverse(SubSeq(st.stack, j + 1, Len(st.stack))),
             stack |-> SubSeq(st.stack, 1, j - 1)]
  ELSE LET popped == StandardPop(st, t)
       IN [popped EXCEPT !.stack = Append(@, t)]

RECURSIVE StandardFrom(_, _, _)
StandardFrom(ts, i, st) ==
  IF i > Len(ts) THEN st.postfix \o Reverse(st.stack)
  ELSE StandardFrom(ts, i + 1, StandardToken(st, ts[i]))

StandardPostfix(ts) == StandardFrom(ts, 1, [postfix |-> <<>>, stack |-> <<>>])

(* C1: for every well-formed infix token sequence, convertToPostfix returns
   the postfix sequence of the standard shunting-yard algorithm (ranks
   NOT > IMPLY > XOR > XNOR > AND > OR, binary operators left-associative). *)
C1_ConverterIsShuntingYard ==
  (pc = "inputs" /\ WellFormedInfix(tokens)) => exp = StandardPostfix(tokens)

(* The canonical truth definitions, on digits. *)
CanonicalOutput(op, a, b) ==
  LET x == a = <<"1">>
      y == b = <<"1">>
      q == CASE op = <<SymAnd>> -> x /\ y
             [] op = <<SymOr>> -> x \/ y
             [] op = <<SymImply>> -> ~x \/ y
             [] op = <<SymXor>> -> x # y
             [] op = <<SymXnor>> -> x = y
  IN IF q THEN <<"1">> ELSE <<"0">>

(* The expression is `X op Y` for two different variables X and Y. *)
SingleOperatorExpression ==
  /\ Len(tokens) = 3
  /\ strRegexTest(tokens[1])
  /\ strRegexTest(tokens[3])
  /\ tokens[1] # tokens[3]
  /\ IsBinary(tokens[2])

(* C2: for every binary operator op and every assignment, the output computed
   for `A op B` is the canonical value of op with A as left-hand and B as
   right-hand operand. *)
C2_SingleOperatorTable ==
  (pc = "circuit" /\ SingleOperatorExpression) =>
    \A r \in 1..Len(inputs) :
      outputs[r] = CanonicalOutput(tokens[2], inputs[r][1], inputs[r][2])

(* The position of a variable name in the Variable Set. *)
VariableIndex(name) == CHOOSE i \in 1..Len(variables) : variables[i] = name

(* C3: in getOutputs every Variable token is replaced by the bit the
   assignment gives to its name's position in the Variable Set, never by a
   missing value, also when a name occurs more than once. *)
C3_SubstitutionByName ==
  pc = "evaluate" =>
    \A p \in 1..Len(exp) :
      strRegexTest(exp[p]) =>
        /\ replacedExp[p] # Undefined
        /\ replacedExp[p] = At(inputs[inputIdx], VariableIndex(exp[p]) - 1)

(* The synonym classes and the canonical symbol of each. *)
SynonymClasses ==
  << [key |-> <<".">>, value |-> SymAnd],
     [key |-> <<"^">>, value |-> SymAnd],
     [key |-> <<"&">>, value |-> SymAnd],
     [key |-> <<"A", "N", "D">>, value |-> SymAnd],
     [key |-> <<"+">>, value |-> SymOr],
     [key |-> <<"|">>, value |-> SymOr],
     [key |-> <<"O", "R">>, value |-> SymOr],
     [key |-> <<"!">>, value |-> SymNot],
     [key |-> <<"N", "O", "T">>, value |-> SymNot],
     [key |-> <<SymVeebar>>, value |-> SymXor],
     [key |-> <<"X", "O", "R">>, value |-> SymXor],
     [key |-> <<">">>, value |-> SymImply],
     [key |-> <<"=">>, value |-> SymXnor],
     [key |-> <<SymOdot>>, value |-> SymXnor],
     [key |-> <<"X", "N", "O", "R">>, value |-> SymXnor] >>

(* One pass over s in which every synonym, word forms in any letter case, is
   replaced by the canonical symbol of its class. *)
RECURSIVE CanonicalFrom(_, _)
CanonicalFrom(s, p) ==
  IF p > Len(s) THEN <<>>
  ELSE LET ms == {m \in 1..Len(SynonymClasses) : KeyMatchesAt(s, p, SynonymClasses[m].key)}
       IN IF ms = {}
            THEN <<s[p]>> \o CanonicalFrom(s, p + 1)
            ELSE LET m == CHOOSE m \in ms : \A o \in ms : m <= o
                 IN <<SynonymClasses[m].value>>
                      \o CanonicalFrom(s, p + Len(SynonymClasses[m].key))

CanonicalSymbols == {SymAnd, SymOr, SymNot, SymImply, SymXor, SymXnor, "(", ")"}

(* C4: the Normalizer replaces every recognized synonym, word forms in any
   letter case, by the canonical symbol of its class, so that its output holds
   only canonical symbols, parentheses and alphanumeric characters that were
   in the input. *)
C4_NormalizerCanonical ==
  pc # "tokenize" =>
    /\ normalized = CanonicalFrom(Squeeze(raw), 1)
    /\ \A i \in 1..Len(normalized) :
         \/ normalized[i] \in CanonicalSymbols
         \/ /\ IsWordChar(normalized[i])
            /\ \E j \in 1..Len(raw) : raw[j] = normalized[i]

(* C5: getInputs(n) returns exactly 2^n assignments, each of length n, the
   i-th being the n-bit binary representation of i, most significant bit
   first; for n = 0 exactly one assignment (of length 0). *)
C5_InputsEnumerate ==
  pc \in {"outputs", "evaluate", "circuit", "karnaugh", "table"} =>
    /\ Len(inputs) = Pow2(Len(variables))
    /\ \A i \in 1..Len(inputs) :
         /\ Len(inputs[i]) = Len(variables)
         /\ \A b \in 1..Len(inputs[i]) : inputs[i][b] \in {<<"0">>, <<"1">>}
         /\ ParseInt2(Join(inputs[i])) = i - 1

(* C7: whenever a ')' is met with no '(' on the stack, or a '(' is left at the
   end of the input, convertToPostfix fails and the pipeline produces no
   truth table, Karnaugh map or gate tree. *)
C7_UnbalancedRejected ==
  (pc \notin {"tokenize", "variables", "convert"} /\ Unbalanced(tokens)) =>
    /\ pc = "threw"
    /\ truthTable = NoTable
    /\ karnaughMap = NoMap
    /\ gNodes = {}

(* C8: table generation never consumes the postfix template: every evaluation
   of getOutputs starts from a copy that holds the complete sequence, and
   until createCircuit runs exp is element for element what the converter
   returned. *)
C8_TemplateNotConsumed ==
  /\ pc \in {"inputs", "outputs", "evaluate", "circuit"} =>
       exp = convertToPostfix(tokens).postfix
  /\ pc = "evaluate" =>
       /\ Len(replacedExp) = Len(exp)
       /\ \A p \in 1..Len(exp) : ~strRegexTest(exp[p]) => replacedExp[p] = exp[p]

C8_Witness ==
  /\ pc = "circuit"
  /\ Len(outputs) = 4
  /\ Len(exp) >= 3
  /\ \E p \in 1..Len(exp) : IsBinary(exp[p])

(* What a node of the graph stands for: a gate by its name, a leaf by its
   label. *)
NodeSymbol(n) ==
  IF n.gate # Undefined THEN <<"gate", n.gate>> ELSE <<"leaf", n.label>>

TokenSymbol(t) ==
  IF PropertyKey(t) \in operations1Keys \cup operations2Keys
    THEN <<"gate", names(t)>>
    ELSE <<"leaf", t>>

Children(id) == {e[2] : e \in {d \in gEdges : d[1] = id}}

NodeAt(id) == CHOOSE n \in gNodes : n.id = id

(* The nodes below id, the node itself first, then the subtree of its child
   0 (the operand built first), then that of its child 1. *)
RECURSIVE Preorder(_)
Preorder(id) ==
  <<NodeSymbol(NodeAt(id))>>
    \o (IF Append(id, "0") \in Children(id) THEN Preorder(Append(id, "0")) ELSE <<>>)
    \o (IF Append(id, "1") \in Children(id) THEN Preorder(Append(id, "1")) ELSE <<>>)

(* The tree accounts for the tokens of the postfix sequence, once each: the
   array is used up, there are as many nodes as tokens, a binary gate has the
   two children 0 and 1, a NOT gate the child 0, a leaf none, and the nodes
   read root first, child 0 before child 1, are the tokens from the last to
   the first (so child 0, built first, is the right operand). *)
TreeAccountsFor(postfix) ==
  /\ exp = <<>>
  /\ Cardinality(gNodes) = Len(postfix)
  /\ \A n \in gNodes :
       /\ n.gate \in {names(op) : op \in operations2Keys} =>
            Children(n.id) = {Append(n.id, "0"), Append(n.id, "1")}
       /\ n.gate = names(<<SymNot>>) => Children(n.id) = {Append(n.id, "0")}
       /\ n.gate = Undefined => Children(n.id) = {} /\ n.label # Undefined
  /\ Preorder(<<"0">>) = [i \in 1..Len(postfix) |-> TokenSymbol(postfix[Len(postfix) + 1 - i])]

(* For "A AND B" the root is an AND gate over the leaves A and B. *)
AndScenario ==
  raw = <<"A", " ", "A", "N", "D", " ", "B">> =>
    /\ NodeSymbol(NodeAt(<<"0">>)) = <<"gate", <<"A", "N", "D">>>>
    /\ {NodeSymbol(NodeAt(c)) : c \in Children(<<"0">>)} = {<<"leaf", <<"A">>>>, <<"leaf", <<"B">>>>}

(* C9 as stated: for every postfix sequence the converter returns,
   createCircuit consumes each token exactly once and the tree has as many
   nodes as the sequence has tokens.  Stated for the inputs with balanced
   parentheses, for which the converter is meant to return a sequence. *)
C9_TreeOfEveryPostfix ==
  (pc \in AfterCircuit /\ ~Unbalanced(tokens)) =>
    TreeAccountsFor(convertToPostfix(tokens).postfix)

(* C9 amended: for every postfix sequence the converter returns for a
   well-formed infix expression, createCircuit consumes each token exactly once
   through the shared cursor, the tree has as many nodes as the sequence has
   tokens, and for "A AND B" the root is an AND gate over the leaves A and B. *)
C9_TreeOfWellFormed ==
  (pc \in AfterCircuit /\ WellFormedInfix(tokens)) =>
    /\ TreeAccountsFor(convertToPostfix(tokens).postfix)
    /\ AndScenario

C9_Witness ==
  /\ pc = "karnaugh"
  /\ WellFormedInfix(tokens)
  /\ Cardinality(gNodes) >= 4
  /\ \E n \in gNodes : n.gate = names(<<SymNot>>)
  /\ \E n \in gNodes : n.gate = names(<<SymImply>>)

----------------------------------------------------------------------------
(* The cells of the Karnaugh map, as <<row, column>> pairs. *)
KarnaughCells ==
  {<<r, c>> : r \in 1..Len(karnaughMap.rows), c \in 1..Len(karnaughMap.header)}

CellIndex(rc) == ParseInt2(karnaughMap.rows[rc[1]].cells[rc[2]].index)

(* C6: with n variables (Q not counted), v = floor(n/2) of them on the rows
   and h = n - v on the columns, the index of cell (r, c) is a bijection from
   the 2^v x 2^h cells onto the truth-table indices 0..2^n - 1, and each cell
   shows the output at its index. *)
C6_KarnaughBijection ==
  pc = "table" =>
    LET n == Len(variables)
    IN /\ Len(karnaughMap.rows) = Pow2(n \div 2)
       /\ Len(karnaughMap.header) = Pow2(n - (n \div 2))
       /\ \A r \in 1..Len(karnaughMap.rows) :
            Len(karnaughMap.rows[r].cells) = Len(karnaughMap.header)
       /\ \A t \in 0..(Pow2(n) - 1) :
            Cardinality({rc \in KarnaughCells : CellIndex(rc) = t}) = 1
       /\ \A rc \in KarnaughCells :
            /\ CellIndex(rc) \in 0..(Pow2(n) - 1)
            /\ karnaughMap.rows[rc[1]].cells[rc[2]].text = outputs[CellIndex(rc) + 1]

C6_Witness ==
  /\ pc = "table"
  /\ Len(variables) = 5
  /\ karnaughMap.rows[3].cells[6].highlighted

(* The number of positions in which two labels of one length differ. *)
Distance(a, b) == Cardinality({i \in 1..Len(a) : a[i] # b[i]})

(* Every label and its successor, the first being the successor of the last,
   differ in exactly one bit. *)
CyclicGray(labels) ==
  \A i \in 1..Len(labels) :
    LET next == labels[(i % Len(labels)) + 1]
    IN Len(labels[i]) = Len(next) /\ Distance(labels[i], next) = 1

RowLabels == [r \in 1..Len(karnaughMap.rows) |-> karnaughMap.rows[r].label]

(* C10: for every group size k >= 1 the k-bit labels gray(0), ...,
   gray(2^k - 1) of the rows, and of the columns, differ in exactly one bit
   from one to the next, the wrap-around pair last/first included. *)
C10_GrayAdjacency ==
  pc = "table" =>
    /\ Len(karnaughMap.header) >= 2 => CyclicGray(karnaughMap.header)
    /\ Len(karnaughMap.rows) >= 2 => CyclicGray(RowLabels)

C10_Witness ==
  /\ pc = "table"
  /\ Len(karnaughMap.header) = 8
  /\ Len(karnaughMap.rows) = 4

====
